---- MODULE Spec2Model ----
(***************************************************************************)
(* Model of muddery/combat/base_combat_handler.py (BaseCombatHandler).     *)
(*                                                                         *)
(* One combat handler (an Evennia script) and the characters it admits.   *)
(* Every entry point of the handler is one action; the methods are         *)
(* operators on a record `s' holding the handler's fields and the fields   *)
(* of the characters the handler touches, so that a handler that calls     *)
(* another method (prepare_skill -> cast_skill -> finish -> stop ->        *)
(* at_stop -> _cleanup_character) is one step.                             *)
(*                                                                         *)
(* Library behaviour the handler relies on:                               *)
(*   - DefaultScript.stop() calls the at_stop() hook every time it is      *)
(*     called;                                                             *)
(*   - `del character.ndb.x' of an absent x and cmdset.delete() of an      *)
(*     absent command set do nothing;                                      *)
(*   - a twisted DelayedCall is active() until it has fired or has been    *)
(*     cancelled, and it fires at most once.                               *)
(***************************************************************************)
EXTENDS FiniteSets, Integers, Sequences, TLC

\* The characters (by dbref) and the team ids of the model.
Actors == {"a1", "b1", "c1"}
Teams == {"A", "B", "C"}
None == "None"

\* character.has_account: a1 and b1 are played, c1 is an NPC.
has_account == [c \in Actors |-> c # "c1"]

\* The timeouts given to set_combat: zero means no limit.
Timeouts == {0, 5}

\* Bound of the model: the number of entry-point calls after set_combat.
MaxOps == 2

VARIABLES
    characters,      \* self.characters: the dbrefs in the roster
    order,           \* iteration order of the dict self.characters
    finished,        \* self.finished
    timeout,         \* self.timeout
    timer,           \* self.timer: "none", "pending", "fired", "cancelled"
    team,            \* character.get_team()
    alive,           \* character.is_alive()
    combat_handler,  \* character.ndb.combat_handler is set
    cmdset,          \* number of combat command sets on the character
    msgs,            \* what character.msg() delivered, in order
    cleanups,        \* number of _cleanup_character calls per character
    cmdadds,         \* number of cmdset.add calls per character
    stops,           \* number of stop() calls
    cancels,         \* number of timer.cancel() calls
    admitted,        \* set_combat has been called
    nops,            \* number of entry-point calls after set_combat
    last             \* the last entry-point call and what it did

vars == <<characters, order, finished, timeout, timer, team, alive,
          combat_handler, cmdset, msgs, cleanups, cmdadds, stops, cancels,
          admitted, nops, last>>

\* The handler and its characters as one record, the `self' of the methods.
Self ==
    [characters |-> characters, finished |-> finished, timeout |-> timeout,
     timer |-> timer, team |-> team, alive |-> alive,
     combat_handler |-> combat_handler, cmdset |-> cmdset, msgs |-> msgs,
     cleanups |-> cleanups, cmdadds |-> cmdadds, stops |-> stops,
     cancels |-> cancels, casts |-> 0, cbs |-> 0, threw |-> FALSE,
     raised |-> FALSE, runs |-> <<>>]

\* self.characters.values(), in the dict's iteration order.
values(s, ord) == SelectSeq(ord, LAMBDA c : c \in s.characters)

\* The set of elements of a sequence.
Range(q) == {q[i] : i \in DOMAIN q}

\* All orders in which a dict with the keys R can iterate.
Orders(R) ==
    {q \in [1..Cardinality(R) -> R] : Range(q) = R}

\* character.msg(m)
msg(s, c, m) == [s EXCEPT !.msgs[c] = Append(@, m)]

\* timer.active()
active(s) == s.timer = "pending"

\* show_combat: joined_combat, then the combat_info snapshot.
show_combat(s, c) == msg(msg(s, c, "joined_combat"), c, "combat_info")

\* A _cleanup_character that forgets cmdset.delete.
cleanup_keeps_cmdset(s, c) ==
    LET s1 == [s EXCEPT !.combat_handler[c] = FALSE,
                        !.cleanups[c] = @ + 1]
    IN  IF has_account[c] THEN msg(s1, c, "left_combat") ELSE s1

\* _cleanup_character: back-reference, command set, left_combat.
_cleanup_character(s, c) ==
    LET s1 == [s EXCEPT !.combat_handler[c] = FALSE,
                        !.cmdset[c] = IF @ > 0 THEN @ - 1 ELSE 0,
                        !.cleanups[c] = @ + 1]
    IN  IF has_account[c] THEN msg(s1, c, "left_combat") ELSE s1

RECURSIVE cleanup_loop(_, _)
\* the loop of at_stop over self.characters.values()
cleanup_loop(s, cs) ==
    IF cs = <<>> THEN s
    ELSE cleanup_loop(_cleanup_character(s, Head(cs)), Tail(cs))

\* An at_stop that leaves the timer alone.
at_stop_no_cancel(s, ord) == cleanup_loop(s, values(s, ord))

\* at_stop: cancel an active timer, clean every character of the roster.
at_stop(s, ord) ==
    LET s1 == IF s.timer # "none" /\ active(s)
              THEN [s EXCEPT !.timer = "cancelled", !.cancels = @ + 1]
              ELSE s
    IN  cleanup_loop(s1, values(s1, ord))

\* self.stop(): the script's stop() runs the at_stop() hook.
stop(s, ord) == [at_stop(s, ord) EXCEPT !.stops = @ + 1]

\* at_server_shutdown
at_server_shutdown(s, ord) == stop(s, ord)

RECURSIVE can_finish_loop(_, _, _)
\* the loop of can_finish: collect the teams of the alive characters
can_finish_loop(s, cs, teams) ==
    IF cs = <<>> THEN TRUE
    ELSE IF s.alive[Head(cs)]
         THEN LET t2 == teams \cup {s.team[Head(cs)]}
              IN  IF Cardinality(t2) > 1 THEN FALSE
                  ELSE can_finish_loop(s, Tail(cs), t2)
         ELSE can_finish_loop(s, Tail(cs), teams)

\* A can_finish without the check for an empty roster.
can_finish_no_empty_check(s, ord) == can_finish_loop(s, values(s, ord), {})

\* can_finish
can_finish(s, ord) ==
    IF s.characters = {} THEN FALSE
    ELSE can_finish_loop(s, values(s, ord), {})

RECURSIVE draw_loop(_, _)
\* the loop of set_combat_draw
draw_loop(s, cs) ==
    IF cs = <<>> THEN s
    ELSE draw_loop(IF has_account[Head(cs)] THEN msg(s, Head(cs), "draw")
                   ELSE s, Tail(cs))

\* set_combat_draw
set_combat_draw(s, ord) == draw_loop(s, values(s, ord))

RECURSIVE result_loop(_, _, _)
\* one loop of set_combat_results, sending m to the characters cs
result_loop(s, cs, m) ==
    IF cs = <<>> THEN s
    ELSE result_loop(IF has_account[Head(cs)] THEN msg(s, Head(cs), m)
                     ELSE s, Tail(cs), m)

\* set_combat_results: win to the winners, then lose to the losers.
set_combat_results(s, winners, losers) ==
    result_loop(result_loop(s, winners, "win"), losers, "lose")

\* A winner_team that falls back on the first character's team when
\* nobody is alive.
winner_team_never_none(s, cs) ==
    LET al == SelectSeq(cs, LAMBDA c : s.alive[c])
    IN  IF al # <<>> THEN s.team[Head(al)]
        ELSE IF cs # <<>> THEN s.team[Head(cs)]
        ELSE None

RECURSIVE first_alive_team(_, _)
\* the loop of finish that picks winner_team
first_alive_team(s, cs) ==
    IF cs = <<>> THEN None
    ELSE IF s.alive[Head(cs)] THEN s.team[Head(cs)]
         ELSE first_alive_team(s, Tail(cs))

\* Winners that are only the alive characters of the winning team.
winners_alive_only(s, cs, winner_team) ==
    SelectSeq(cs, LAMBDA c : s.alive[c] /\ s.team[c] = winner_team)

\* The winners of finish.
finish_winners(s, cs, winner_team) ==
    SelectSeq(cs, LAMBDA c : s.team[c] = winner_team)

\* The losers of finish.
finish_losers(s, cs, winner_team) ==
    SelectSeq(cs, LAMBDA c : s.team[c] # winner_team)

\* A finish that cleans the characters itself and never cancels the timer.
finish_no_cancel(s, ord) ==
    LET s2 == [s EXCEPT !.finished = TRUE]
        cs == values(s2, ord)
        winner_team == first_alive_team(s2, cs)
        winners == finish_winners(s2, cs, winner_team)
        losers == finish_losers(s2, cs, winner_team)
        run == [roster |-> s2.characters,
                alive |-> {c \in s2.characters : s2.alive[c]},
                winners |-> Range(winners), losers |-> Range(losers)]
        s3 == IF s2.characters # {}
              THEN [set_combat_results(s2, winners, losers)
                        EXCEPT !.runs = Append(@, run)]
              ELSE s2
    IN  [cleanup_loop(s3, values(s3, ord)) EXCEPT !.stops = @ + 1]

\* finish
finish(s, ord) ==
    LET s1 == [s EXCEPT !.finished = TRUE]
        s2 == IF s1.timer # "none" /\ active(s1)
              THEN [s1 EXCEPT !.timer = "cancelled", !.cancels = @ + 1]
              ELSE s1
        cs == values(s2, ord)
        winner_team == first_alive_team(s2, cs)
        winners == finish_winners(s2, cs, winner_team)
        losers == finish_losers(s2, cs, winner_team)
        run == [roster |-> s2.characters,
                alive |-> {c \in s2.characters : s2.alive[c]},
                winners |-> Range(winners), losers |-> Range(losers)]
        s3 == IF s2.characters # {}
              THEN [set_combat_results(s2, winners, losers)
                        EXCEPT !.runs = Append(@, run)]
              ELSE s2
    IN  stop(s3, ord)

\* caller.cast_skill(skill_key, target): the skill kills the characters D,
\* calls finish() on the handler when cb, and then raises when exc.
cast_skill(s, D, cb, exc, ord) ==
    LET s1 == [s EXCEPT !.alive = [c \in Actors |-> @[c] /\ c \notin D],
                        !.casts = @ + 1]
        s2 == IF cb THEN [finish(s1, ord) EXCEPT !.cbs = @ + 1] ELSE s1
    IN  [s2 EXCEPT !.threw = exc, !.raised = exc]

\* A prepare_skill that does not look at self.finished.
prepare_skill_no_guard(s, caller, D, cb, exc, ord) ==
    IF caller # None
    THEN LET s1 == cast_skill(s, D, cb, exc, ord)
         IN  IF s1.raised THEN s1
             ELSE IF can_finish(s1, ord) THEN finish(s1, ord) ELSE s1
    ELSE s

\* A prepare_skill that does not check can_finish after the skill.
prepare_skill_no_recheck(s, caller, D, cb, exc, ord) ==
    IF s.finished THEN s
    ELSE IF caller # None
         THEN cast_skill(s, D, cb, exc, ord)
         ELSE s

\* A prepare_skill that catches what cast_skill raises and goes on.
prepare_skill_swallows(s, caller, D, cb, exc, ord) ==
    IF s.finished THEN s
    ELSE IF caller # None
         THEN LET s1 == [cast_skill(s, D, cb, exc, ord)
                             EXCEPT !.raised = FALSE]
              IN  IF can_finish(s1, ord) THEN finish(s1, ord) ELSE s1
         ELSE s

\* prepare_skill: an exception of cast_skill leaves the method at once.
prepare_skill(s, caller, D, cb, exc, ord) ==
    IF s.finished THEN s
    ELSE IF caller # None
         THEN LET s1 == cast_skill(s, D, cb, exc, ord)
              IN  IF s1.raised THEN s1
                  ELSE IF can_finish(s1, ord) THEN finish(s1, ord) ELSE s1
         ELSE s

\* A skill_escape that releases the caller and keeps it in the roster.
skill_escape_keeps_roster(s, caller, ord) ==
    IF caller # None
    THEN LET s1 == IF has_account[caller] THEN msg(s, caller, "escaped")
                   ELSE s
         IN  IF caller \in s1.characters
             THEN _cleanup_character(s1, caller)
             ELSE s1
    ELSE s

\* A skill_escape that checks can_finish as remove_character does.
skill_escape_checks_finish(s, caller, ord) ==
    IF caller # None
    THEN LET s1 == IF has_account[caller] THEN msg(s, caller, "escaped")
                   ELSE s
         IN  IF caller \in s1.characters
             THEN LET s2 == [_cleanup_character(s1, caller)
                                 EXCEPT !.characters = @ \ {caller}]
                  IN  IF can_finish(s2, ord) THEN finish(s2, ord) ELSE s2
             ELSE s1
    ELSE s

\* skill_escape
skill_escape(s, caller, ord) ==
    IF caller # None
    THEN LET s1 == IF has_account[caller] THEN msg(s, caller, "escaped")
                   ELSE s
         IN  IF caller \in s1.characters
             THEN [_cleanup_character(s1, caller)
                       EXCEPT !.characters = @ \ {caller}]
             ELSE s1
    ELSE s

\* A remove_character that does not check can_finish.
remove_character_no_finish(s, character, ord) ==
    IF character \in s.characters
    THEN [_cleanup_character(s, character)
              EXCEPT !.characters = @ \ {character}]
    ELSE s

\* remove_character
remove_character(s, character, ord) ==
    IF character \in s.characters
    THEN LET s1 == [_cleanup_character(s, character)
                        EXCEPT !.characters = @ \ {character}]
         IN  IF can_finish(s1, ord) THEN finish(s1, ord) ELSE s1
    ELSE s

\* An at_timeout that declares the draw and does not stop the script.
at_timeout_no_stop(s, ord) ==
    IF s.finished THEN s
    ELSE set_combat_draw(s, ord)

\* An at_timeout that does not look at self.finished.
at_timeout_no_guard(s, ord) == stop(set_combat_draw(s, ord), ord)

\* at_timeout
at_timeout(s, ord) ==
    IF s.finished THEN s
    ELSE stop(set_combat_draw(s, ord), ord)

RECURSIVE admit_loop(_, _)
\* the second loop of set_combat
admit_loop(s, cs) ==
    IF cs = <<>> THEN s
    ELSE LET c == Head(cs)
             s1 == [s EXCEPT !.combat_handler[c] = TRUE,
                             !.cmdset[c] = @ + 1,
                             !.cmdadds[c] = @ + 1]
         IN  admit_loop(IF has_account[c] THEN show_combat(s1, c) ELSE s1,
                        Tail(cs))

\* A set_combat that does not call character.set_team.
set_combat_no_team(s, teams, tmo, ord) ==
    LET members == UNION {teams[t] : t \in DOMAIN teams}
        s1 == [s EXCEPT !.timeout = tmo,
                        !.characters = @ \cup members]
        s2 == admit_loop(s1, values(s1, ord))
    IN  IF s2.timeout # 0 THEN [s2 EXCEPT !.timer = "pending"] ELSE s2

\* set_combat: teams is the dict {team id: characters}.
set_combat(s, teams, tmo, ord) ==
    LET members == UNION {teams[t] : t \in DOMAIN teams}
        s1 == [s EXCEPT !.timeout = tmo,
                        !.team = [c \in Actors |->
                                     IF c \in members
                                     THEN CHOOSE t \in DOMAIN teams :
                                              c \in teams[t]
                                     ELSE @[c]],
                        !.characters = @ \cup members]
        s2 == admit_loop(s1, values(s1, ord))
    IN  IF s2.timeout # 0 THEN [s2 EXCEPT !.timer = "pending"] ELSE s2

(***************************************************************************)
(* The state machine.                                                      *)
(***************************************************************************)

\* The state after at_script_creation.
Init ==
    /\ characters = {}
    /\ order = <<>>
    /\ finished = FALSE
    /\ timeout = 0
    /\ timer = "none"
    /\ team = [c \in Actors |-> None]
    /\ alive = [c \in Actors |-> TRUE]
    /\ combat_handler = [c \in Actors |-> FALSE]
    /\ cmdset = [c \in Actors |-> 0]
    /\ msgs = [c \in Actors |-> <<>>]
    /\ cleanups = [c \in Actors |-> 0]
    /\ cmdadds = [c \in Actors |-> 0]
    /\ stops = 0
    /\ cancels = 0
    /\ admitted = FALSE
    /\ nops = 0
    /\ last = [op |-> "create", arg |-> None, casts |-> 0, cbs |-> 0,
               threw |-> FALSE, raised |-> FALSE, runs |-> <<>>]

\* The handler's fields after a method returned the record s.
Becomes(s, op, arg) ==
    /\ characters' = s.characters
    /\ finished' = s.finished
    /\ timeout' = s.timeout
    /\ timer' = s.timer
    /\ team' = s.team
    /\ alive' = s.alive
    /\ combat_handler' = s.combat_handler
    /\ cmdset' = s.cmdset
    /\ msgs' = s.msgs
    /\ cleanups' = s.cleanups
    /\ cmdadds' = s.cmdadds
    /\ stops' = s.stops
    /\ cancels' = s.cancels
    /\ last' = [op |-> op, arg |-> arg, casts |-> s.casts, cbs |-> s.cbs,
                threw |-> s.threw, raised |-> s.raised, runs |-> s.runs]

\* An entry point called on the admitted session.
Called(s, op, arg) ==
    /\ admitted
    /\ nops < MaxOps
    /\ nops' = nops + 1
    /\ UNCHANGED <<order, admitted>>
    /\ Becomes(s, op, arg)

\* The characters and the team ids in a fixed order, to name one team
\* mapping per partition of the admitted characters.
ActorSeq == <<"a1", "b1", "c1">>
TeamSeq == <<"A", "B", "C">>
Index(q, x) == CHOOSE i \in DOMAIN q : q[i] = x

\* The largest element of a non-empty set of numbers.
Max(S) == CHOOSE x \in S : \A y \in S : y <= x

\* Team ids are opaque and only compared for equality: tm uses the team
\* ids in the order A, B, C along a1, b1, c1.
Canonical(tm) ==
    \A c \in DOMAIN tm :
        Index(TeamSeq, tm[c]) <=
            1 + Max({0} \cup {Index(TeamSeq, tm[d]) :
                                d \in {e \in DOMAIN tm :
                                    Index(ActorSeq, e) < Index(ActorSeq, c)}})

\* The team mappings given to set_combat: disjoint non-empty teams, one
\* mapping for each way of splitting the admitted characters into teams.
TeamMappings ==
    {tm \in UNION {[R -> Teams] : R \in SUBSET Actors \ {{}}} : Canonical(tm)}

\* The dict {team id: characters} of an assignment of characters to teams.
TeamDict(tm) ==
    [t \in {tm[c] : c \in DOMAIN tm} |-> {c \in DOMAIN tm : tm[c] = t}]

\* The registry creates the script and calls set_combat on it, once.
SetCombat ==
    /\ ~admitted
    /\ \E tm \in TeamMappings, tmo \in Timeouts :
          \E ord \in Orders(DOMAIN tm) :
              /\ order' = ord
              /\ Becomes(set_combat(Self, TeamDict(tm), tmo, ord),
                         "set_combat", tm)
    /\ admitted' = TRUE
    /\ UNCHANGED nops

\* What a skill of the caller can kill: nobody, the caller, its target, or
\* both.
Kills(caller) ==
    {D \in SUBSET Range(order) : Cardinality(D \ {caller}) <= 1}

\* A combat command of an admitted character calls prepare_skill.  What
\* the skill would do is only drawn when the skill is cast.
PrepareSkill ==
    \E caller \in Range(order) \cup {None} :
        IF finished \/ caller = None
        THEN Called(prepare_skill(Self, caller, {}, FALSE, FALSE, order),
                    "prepare_skill", caller)
        ELSE \E D \in Kills(caller), cb \in BOOLEAN, exc \in BOOLEAN :
                 Called(prepare_skill(Self, caller, D, cb, exc, order),
                        "prepare_skill", caller)

\* An escape skill calls skill_escape.
SkillEscape ==
    \E caller \in Range(order) \cup {None} :
        Called(skill_escape(Self, caller, order), "skill_escape", caller)

\* A character leaves (disconnects, is deleted): remove_character.
RemoveCharacter ==
    \E character \in Range(order) :
        Called(remove_character(Self, character, order),
               "remove_character", character)

\* finish() called directly.
Finish ==
    /\ admitted
    /\ Called(finish(Self, order), "finish", None)

\* The reactor fires the pending timer, which calls at_timeout.
AtTimeout ==
    /\ timer = "pending"
    /\ Called(at_timeout([Self EXCEPT !.timer = "fired"], order),
              "at_timeout", None)

\* at_timeout() called by something other than the pending timer.
AtTimeoutCall ==
    /\ admitted
    /\ Called(at_timeout(Self, order), "at_timeout_call", None)

\* The server shuts down.
AtServerShutdown ==
    /\ admitted
    /\ Called(at_server_shutdown(Self, order), "at_server_shutdown", None)

Next ==
    \/ SetCombat
    \/ PrepareSkill
    \/ SkillEscape
    \/ RemoveCharacter
    \/ Finish
    \/ AtTimeout
    \/ AtTimeoutCall
    \/ AtServerShutdown

Spec == Init /\ [][Next]_vars

\* The reactor fires the pending timer whatever else has been called:
\* callLater(self.timeout, self.at_timeout) runs at_timeout once the delay
\* has passed unless the call was cancelled.
TimerFires ==
    /\ admitted
    /\ timer = "pending"
    /\ UNCHANGED <<order, admitted, nops>>
    /\ Becomes(at_timeout([Self EXCEPT !.timer = "fired"], order),
               "at_timeout", None)

\* How many entry-point calls are interleaved with the timer.
LiveOps == MaxOps - 1

LivePrepareSkill ==
    /\ nops < LiveOps
    /\ PrepareSkill

LiveSkillEscape ==
    /\ nops < LiveOps
    /\ SkillEscape

LiveRemoveCharacter ==
    /\ nops < LiveOps
    /\ RemoveCharacter

LiveFinish ==
    /\ nops < LiveOps
    /\ Finish

LiveAtTimeoutCall ==
    /\ nops < LiveOps
    /\ AtTimeoutCall

LiveAtServerShutdown ==
    /\ nops < LiveOps
    /\ AtServerShutdown

LiveNext ==
    \/ SetCombat
    \/ LivePrepareSkill
    \/ LiveSkillEscape
    \/ LiveRemoveCharacter
    \/ LiveFinish
    \/ LiveAtTimeoutCall
    \/ LiveAtServerShutdown
    \/ TimerFires

\* The entry points in any interleaving, and a pending timer that fires
\* in the end.
LiveSpec == Init /\ [][LiveNext]_vars /\ WF_vars(TimerFires)

(***************************************************************************)
(* Properties.                                                             *)
(***************************************************************************)

\* How many times the message m occurs in the sequence q.
Count(q, m) == Cardinality({i \in DOMAIN q : q[i] = m})

\* What this step delivered to the character c.
Delta(c) == SubSeq(msgs'[c], Len(msgs[c]) + 1, Len(msgs'[c]))

\* The character c holds neither the back-reference nor the command set.
Released(c) == ~combat_handler[c] /\ cmdset[c] = 0

\* This step is a call of finish(), of at_server_shutdown() or of an
\* at_timeout() that fired while finished was false, or it ran finish().
TerminatingStep ==
    \/ last'.op \in {"finish", "at_server_shutdown"}
    \/ last'.op \in {"at_timeout", "at_timeout_call"} /\ ~finished
    \/ Len(last'.runs) > 0

C1_Step ==
    /\ TerminatingStep => \A c \in characters : Released(c)'
    /\ finished' => \A c \in characters' : Released(c)'

\* C1: once finish(), a fired at_timeout() or at_server_shutdown() has
\* returned, every character that was in the roster when it started holds
\* no back-reference and no combat command set; and whenever finished is
\* true no roster character holds either.
C1_Release == [][C1_Step]_vars

\* C1 witness: a prepare_skill finished the session and the roster's
\* characters were all released by it.
C1_Witness ==
    /\ last.op = "prepare_skill"
    /\ finished
    /\ Cardinality(characters) >= 2
    /\ \A c \in characters : Released(c) /\ cleanups[c] = 1

\* C2: every admitted character is released at most once, and exactly once
\* by the time the session has been stopped, whatever sequence of entry
\* points is called.
C2_CleanupOnce ==
    \A c \in Range(order) :
        /\ cleanups[c] <= 1
        /\ stops > 0 => cleanups[c] = 1

\* C3: however often finish() runs, no character receives more than one
\* win or lose notification and the timer is cancelled at most once.
C3_FinishIdempotent ==
    /\ \A c \in Actors : Count(msgs[c], "win") + Count(msgs[c], "lose") <= 1
    /\ cancels <= 1

C4_Step ==
    /\ ((finished \/ stops > 0) /\ last'.op = "prepare_skill") =>
           /\ last'.casts = 0
           /\ \A c \in Actors : \A m \in {"win", "lose", "draw"} :
                  Count(msgs'[c], m) = Count(msgs[c], m)
    /\ \A c \in Actors :
           Count(msgs[c], "draw") > 0 =>
               \A m \in {"win", "lose"} :
                   Count(msgs'[c], m) = Count(msgs[c], m)

\* C4: after the session has terminated (finish, fired at_timeout or
\* at_server_shutdown), a prepare_skill call never invokes cast_skill and
\* sends no win, lose or draw; and a character that has received a draw
\* never receives a win or lose afterwards.
C4_NeverReactivated == [][C4_Step]_vars

C5_Step ==
    (\/ last'.op \in {"finish", "at_server_shutdown"}
     \/ last'.op = "at_timeout" /\ ~finished) => characters' = {}

\* C5: after finish(), a fired at_timeout() or at_server_shutdown() has
\* returned, the roster self.characters is empty.
C5_RosterEmpty == [][C5_Step]_vars

\* The team ids of the alive characters of the roster.
AliveTeams == {team[c] : c \in {d \in characters : alive[d]}}

\* C6: can_finish() is true exactly when the roster is non-empty and the
\* alive roster characters belong to at most one team.
C6_CanFinish ==
    can_finish(Self, order) <=>
        (characters # {} /\ Cardinality(AliveTeams) <= 1)

\* C6 witness: a double knockout, a non-empty roster without any alive
\* character, for which can_finish() is true.
C6_Witness ==
    /\ characters # {}
    /\ \A c \in characters : ~alive[c]
    /\ can_finish(Self, order)

\* The run r of finish() had exactly one team with alive characters.
OneTeamAlive(r) == Cardinality({team[c] : c \in r.alive}) = 1

\* The roster characters of the team that is alive in the run r.
AliveTeamMembers(r) ==
    {c \in r.roster : \E d \in r.alive : team[c] = team[d]}

C7_Step ==
    /\ \A i \in DOMAIN last'.runs :
           LET r == last'.runs[i]
           IN  OneTeamAlive(r) =>
                   /\ r.winners = AliveTeamMembers(r)
                   /\ r.losers = r.roster \ AliveTeamMembers(r)
    /\ (Len(last'.runs) = 1 /\ OneTeamAlive(last'.runs[1])) =>
           \A c \in last'.runs[1].roster :
               /\ Released(c)'
               /\ has_account[c] =>
                      /\ Count(Delta(c), "win") + Count(Delta(c), "lose") = 1
                      /\ Count(Delta(c), "win") = 1 <=>
                             c \in AliveTeamMembers(last'.runs[1])
                      /\ Count(Delta(c), "draw") = 0
    /\ (/\ last'.op = "prepare_skill"
        /\ characters = {"a1", "b1"}
        /\ team["a1"] # team["b1"]
        /\ alive["a1"] /\ alive["b1"]
        /\ alive'["a1"] /\ ~alive'["b1"]
        /\ Len(last'.runs) = 1) =>
           /\ Delta("a1") = <<"win", "left_combat">>
           /\ Delta("b1") = <<"lose", "left_combat">>
           /\ Released("a1")' /\ Released("b1")'

\* C7: when finish() runs on a roster with exactly one team alive, the
\* roster characters of that team are the winners and all others the
\* losers; each played character gets exactly one of win and lose and all
\* are released.  With teams A = [a1], B = [b1] and a1 killing b1 through
\* prepare_skill, a1 gets win, b1 gets lose and both are released.
C7_Winners == [][C7_Step]_vars

\* C7 witness: the scenario of a1 killing b1 has happened.
C7_Witness ==
    /\ last.op = "prepare_skill"
    /\ Len(last.runs) = 1
    /\ characters = {"a1", "b1"}
    /\ msgs["a1"] = <<"joined_combat", "combat_info", "win", "left_combat">>
    /\ msgs["b1"] = <<"joined_combat", "combat_info", "lose", "left_combat">>

C8_Step ==
    /\ (last'.op = "at_timeout" /\ ~finished) =>
           /\ timeout > 0
           /\ \A c \in characters :
                  /\ Released(c)'
                  /\ cleanups'[c] = 1
                  /\ has_account[c] =>
                         /\ Delta(c) = <<"draw", "left_combat">>
                         /\ Count(msgs'[c], "draw") = 1
                         /\ Count(msgs'[c], "win") = 0
                         /\ Count(msgs'[c], "lose") = 0
           /\ timer' = "fired"
           /\ stops' = 1
    /\ timer = "fired" => timer' = "fired"

\* C8: when the timer of a session with timeout > 0 fires while finished
\* is false, every played roster character has received exactly one draw
\* and no win or lose, every roster character is released, stop() has run
\* exactly once, and the timer never becomes pending again.
C8_TimeoutDraw == [][C8_Step]_vars

\* C8 witness: the timer fired on a roster of two or more characters and a
\* played character got its draw.
C8_Witness ==
    /\ last.op = "at_timeout"
    /\ Cardinality(characters) >= 2
    /\ \E c \in characters : has_account[c] /\ Count(msgs[c], "draw") = 1

C9_Step ==
    (last'.op = "prepare_skill" /\ finished) =>
        /\ last'.casts = 0
        /\ Len(last'.runs) = 0
        /\ UNCHANGED <<characters, finished, timer, msgs, alive,
                       combat_handler, cmdset, cleanups, stops, cancels>>

\* C9: prepare_skill called while finished is true does not invoke
\* cast_skill, sends nothing, does not run finish() and leaves the roster,
\* the finished flag and the timer unchanged.
C9_LateDropped == [][C9_Step]_vars

\* C9 witness: a prepare_skill with a caller was called on a finished
\* session.
C9_Witness ==
    /\ last.op = "prepare_skill"
    /\ last.arg # None
    /\ finished
    /\ last.casts = 0

C10_Step ==
    (last'.op = "skill_escape" /\ last'.arg \in characters) =>
        LET caller == last'.arg
        IN  /\ characters' = characters \ {caller}
            /\ ~combat_handler'[caller] /\ cmdset'[caller] = 0
            /\ cleanups'[caller] = cleanups[caller] + 1
            /\ Delta(caller) = IF has_account[caller]
                               THEN <<"escaped", "left_combat">>
                               ELSE <<>>
            /\ \A c \in Actors \ {caller} :
                   /\ msgs'[c] = msgs[c]
                   /\ team'[c] = team[c]
                   /\ combat_handler'[c] = combat_handler[c]
                   /\ cmdset'[c] = cmdset[c]
                   /\ cleanups'[c] = cleanups[c]

\* C10: skill_escape of a roster character removes exactly that character
\* from the roster, releases it and sends it exactly one escaped
\* notification (when it is played); every other character keeps its place
\* in the roster, its team, back-reference, command set and messages.
C10_EscapeFrame == [][C10_Step]_vars

\* C10 witness: a played character escaped from an active session and the
\* others are still in combat.
C10_Witness ==
    /\ last.op = "skill_escape"
    /\ nops = 1
    /\ last.arg # None /\ has_account[last.arg]
    /\ last.arg \notin characters
    /\ Count(msgs[last.arg], "escaped") = 1
    /\ cleanups[last.arg] = 1
    /\ Cardinality(characters) = 2
    /\ \A c \in characters : combat_handler[c] /\ cmdset[c] = 1

\* The win, lose and draw notifications.
Outcomes == {"win", "lose", "draw"}

\* This step sent no win, lose or draw to anybody.
NoOutcomeSent ==
    \A c \in Actors : \A m \in Outcomes :
        Count(msgs'[c], m) = Count(msgs[c], m)

C11_Step ==
    /\ last'.op = "skill_escape" =>
           /\ finished' = finished
           /\ timer' = timer
           /\ stops' = stops
           /\ cancels' = cancels
           /\ Len(last'.runs) = 0
           /\ NoOutcomeSent
    /\ (/\ last'.op = "skill_escape"
        /\ last'.arg = "c1"
        /\ characters = Actors
        /\ Cardinality({team[c] : c \in Actors}) = 3
        /\ \A c \in Actors : alive[c]
        /\ ~finished) =>
           /\ characters' = {"a1", "b1"}
           /\ ~can_finish(Self, order)'
           /\ ~finished'

\* C11: skill_escape never finishes the session: finished, the timer and
\* the outcome notifications are as before, whatever roster remains.  With
\* three teams of one alive character each and c1 escaping, the roster is
\* a1 and b1, can_finish() is false and the session stays active.
C11_EscapeNoFinish == [][C11_Step]_vars

\* C11 witness: c1 escaped from the three-team session with a pending
\* timer, a1 and b1 remain.
C11_Witness ==
    /\ last.op = "skill_escape"
    /\ last.arg = "c1"
    /\ nops = 1
    /\ characters = {"a1", "b1"}
    /\ Cardinality({team[c] : c \in Actors}) = 3
    /\ alive["a1"] /\ alive["b1"]
    /\ ~finished
    /\ timer = "pending"
    /\ ~can_finish(Self, order)

C12_Step ==
    /\ last'.op = "at_server_shutdown" =>
           /\ NoOutcomeSent
           /\ \A c \in characters : Released(c)'
           /\ timer' # "pending"
           /\ timer = "pending" =>
                  timer' = "cancelled" /\ cancels' = cancels + 1
    /\ (admitted /\ timer # "pending") => timer' # "pending"

\* C12: at_server_shutdown sends no win, lose or draw, releases every
\* roster character and cancels a pending timer, and a timer that is not
\* pending never becomes pending again, so it does not fire afterwards.
C12_Shutdown == [][C12_Step]_vars

\* C12 witness: the server shut down on an active session of two
\* characters whose timer was pending.
C12_Witness ==
    /\ last.op = "at_server_shutdown"
    /\ nops = 1
    /\ ~finished
    /\ timer = "cancelled"
    /\ Cardinality(characters) = 2
    /\ \A c \in characters : Released(c) /\ cleanups[c] = 1

C13_Step ==
    /\ last'.op = "set_combat" =>
           /\ characters' = DOMAIN last'.arg
           /\ \A c \in DOMAIN last'.arg :
                  /\ cmdadds'[c] = 1
                  /\ cmdset'[c] = 1
                  /\ combat_handler'[c]
                  /\ team'[c] = last'.arg[c]
           /\ \A c \in Actors \ DOMAIN last'.arg :
                  cmdadds'[c] = 0 /\ ~combat_handler'[c]
           /\ finished' = FALSE
    /\ admitted => cmdadds' = cmdadds

\* C13: set_combat adds the combat command set to each admitted character
\* exactly once, gives it the back-reference, records on it the team id
\* under which the mapping lists it, and leaves finished false; no later
\* call adds a command set.
C13_Admission == [][C13_Step]_vars

\* C13 witness: three characters were admitted in two teams.
C13_Witness ==
    /\ last.op = "set_combat"
    /\ characters = Actors
    /\ Cardinality({team[c] : c \in Actors}) = 2
    /\ \A c \in Actors : cmdadds[c] = 1 /\ combat_handler[c]
    /\ ~finished

\* C14: for every character, joined_combat is delivered before combat_info
\* and no left_combat is delivered before a win, lose or draw.
C14_Order ==
    \A c \in Actors : \A i, j \in DOMAIN msgs[c] :
        i < j =>
            /\ ~(msgs[c][i] = "combat_info" /\ msgs[c][j] = "joined_combat")
            /\ ~(msgs[c][i] = "left_combat" /\ msgs[c][j] \in Outcomes)

\* This step is a prepare_skill on an unfinished session whose cast_skill
\* was invoked and returned.
SkillReturned ==
    /\ last'.op = "prepare_skill"
    /\ ~finished
    /\ last'.casts = 1
    /\ ~last'.threw

\* After the skill, the roster is non-empty with at most one team alive:
\* the session is finished, the timer is not pending, all are released.
C15_Finishes ==
    (SkillReturned /\ characters' # {} /\ Cardinality(AliveTeams') <= 1) =>
        /\ finished'
        /\ timer' # "pending"
        /\ \A c \in characters' : Released(c)'

C15_Step ==
    /\ C15_Finishes
    /\ (SkillReturned /\ Cardinality(AliveTeams') >= 2) =>
           /\ finished' = FALSE
           /\ cleanups' = cleanups

\* C15: when prepare_skill returns and at most one team of the non-empty
\* roster is alive, the session is finished, its timer is not pending and
\* every roster character is released; when two or more teams are alive,
\* finished stays false and nobody is released.
C15_Recheck == [][C15_Step]_vars

C15_AmendedStep ==
    /\ C15_Finishes
    /\ (SkillReturned /\ Cardinality(AliveTeams') >= 2 /\ last'.cbs = 0) =>
           /\ finished' = FALSE
           /\ cleanups' = cleanups
           /\ stops' = stops

\* C15 amended: as C15, but with two or more teams alive finished stays
\* false and nobody is released only if cast_skill did not itself call
\* finish().
C15_RecheckAmended == [][C15_AmendedStep]_vars

\* C15 witness: a skill that did not call finish() left one team alive in
\* a roster of two and prepare_skill finished the session.
C15_Witness ==
    /\ last.op = "prepare_skill"
    /\ nops = 1
    /\ last.casts = 1 /\ last.cbs = 0 /\ ~last.threw
    /\ Cardinality(characters) = 2
    /\ Cardinality(AliveTeams) = 1
    /\ finished
    /\ stops = 1
    /\ \A c \in characters : Released(c)

C16_Step ==
    /\ (last'.op = "at_timeout_call" /\ finished) =>
           UNCHANGED <<characters, finished, timeout, timer, team, alive,
                       combat_handler, cmdset, msgs, cleanups, cmdadds,
                       stops, cancels>>
    /\ last'.op = "at_timeout" => ~finished
    /\ \A c \in Actors :
           /\ Count(msgs'[c], "draw") # Count(msgs[c], "draw") =>
                  /\ last'.op \in {"at_timeout", "at_timeout_call"}
                  /\ ~finished
           /\ Count(msgs[c], "win") + Count(msgs[c], "lose") > 0 =>
                  Count(msgs'[c], "draw") = Count(msgs[c], "draw")

\* C16: at_timeout() on a finished session changes nothing and sends
\* nothing; a draw is only sent by an at_timeout() that runs while finished
\* is false, and never to a character that has received win or lose.
C16_DrawOnlyByTimeout == [][C16_Step]_vars

\* C16 witness: at_timeout() was called on a session that finish() had
\* ended with a winner, and no draw was sent.
C16_Witness ==
    /\ last.op = "at_timeout_call"
    /\ finished
    /\ \E c \in characters : Count(msgs[c], "win") = 1
    /\ \A c \in Actors : Count(msgs[c], "draw") = 0
    /\ stops = 1

\* The teams of the alive characters among the characters R.
AliveTeamsOf(R) == {team[c] : c \in {d \in R : alive[d]}}

C17_Step ==
    /\ (last'.op = "remove_character" /\ last'.arg \in characters) =>
           LET ch == last'.arg
               rest == characters \ {ch}
           IN  /\ characters' = rest
               /\ ~combat_handler'[ch] /\ cmdset'[ch] = 0
               /\ cleanups'[ch] = cleanups[ch] + 1
               /\ Delta(ch) = IF has_account[ch] THEN <<"left_combat">>
                              ELSE <<>>
               /\ IF rest # {} /\ Cardinality(AliveTeamsOf(rest)) <= 1
                  THEN /\ finished'
                       /\ Len(last'.runs) = 1
                       /\ stops' = stops + 1
                       /\ \A c \in rest :
                              /\ ~combat_handler'[c] /\ cmdset'[c] = 0
                              /\ has_account[c] =>
                                     Delta(c) \in
                                         {<<"win", "left_combat">>,
                                          <<"lose", "left_combat">>}
                  ELSE /\ finished' = finished
                       /\ stops' = stops
                       /\ Len(last'.runs) = 0
                       /\ \A c \in Actors \ {ch} :
                              /\ msgs'[c] = msgs[c]
                              /\ cleanups'[c] = cleanups[c]
                              /\ combat_handler'[c] = combat_handler[c]
                              /\ cmdset'[c] = cmdset[c]
    /\ (last'.op = "remove_character" /\ last'.arg \notin characters) =>
           UNCHANGED <<characters, finished, timeout, timer, team, alive,
                       combat_handler, cmdset, msgs, cleanups, cmdadds,
                       stops, cancels>>

\* C17: remove_character of a roster character releases it and deletes it
\* from the roster; if the remaining roster is non-empty with at most one
\* team alive, finish() runs: the remaining characters get win or lose and
\* are released, the removed one gets no outcome.  Otherwise nothing else
\* changes, and for a character outside the roster nothing changes at all.
C17_Remove == [][C17_Step]_vars

\* C17 witness: a character of a two-team session was removed and the
\* remaining team won.
C17_Witness ==
    /\ last.op = "remove_character"
    /\ nops = 1
    /\ last.arg \notin characters
    /\ cleanups[last.arg] = 1
    /\ characters # {}
    /\ finished
    /\ Len(last.runs) = 1
    /\ \E c \in characters : Count(msgs[c], "win") = 1
    /\ \A m \in Outcomes : Count(msgs[last.arg], m) = 0

C18_Step ==
    /\ last'.op = "set_combat" =>
           /\ timer' = "pending" <=> timeout' > 0
           /\ timeout' = 0 => timer' = "none"
    /\ timer' = "pending" => (timeout' > 0 /\ ~finished')
    /\ (~finished /\ finished' /\ timer = "pending") =>
           timer' = "cancelled" /\ cancels' = cancels + 1
    /\ last'.op = "at_timeout" => ~finished

\* C18: set_combat schedules the timer exactly when timeout > 0; a pending
\* timer implies timeout > 0 and finished false; a step that sets finished
\* cancels a pending timer in the same step; the timer never fires on a
\* finished session.
C18_Timer == [][C18_Step]_vars

\* C18 witness: the finish() of a prepare_skill cancelled the pending
\* timer of a session with a timeout.
C18_Witness ==
    /\ last.op = "prepare_skill"
    /\ nops = 1
    /\ timeout > 0
    /\ finished
    /\ timer = "cancelled"
    /\ cancels = 1

\* remove_character or skill_escape removed the last roster character:
\* no finish(), no stop(), finished and the timer as before.
C19_LastRemoved ==
    (/\ last'.op \in {"remove_character", "skill_escape"}
     /\ last'.arg \in characters
     /\ characters' = {}) =>
        /\ ~can_finish(Self, order)'
        /\ Len(last'.runs) = 0
        /\ finished' = finished
        /\ stops' = stops
        /\ timer' = timer

\* This step stops or finishes a session whose roster is empty.
EndsEmptySession ==
    /\ admitted
    /\ characters = {}
    /\ stops' # stops \/ finished' # finished

C19_Step ==
    /\ C19_LastRemoved
    /\ EndsEmptySession =>
           last'.op \in {"at_timeout", "at_timeout_call", "at_server_shutdown"}

C19_AmendedStep ==
    /\ C19_LastRemoved
    /\ EndsEmptySession =>
           \/ last'.op \in {"at_timeout", "at_timeout_call",
                            "at_server_shutdown", "finish"}
           \/ last'.op = "prepare_skill" /\ last'.cbs = 1
    /\ (admitted /\ characters = {} /\ last'.op = "prepare_skill") =>
           stops' = stops + last'.cbs

C20_Step ==
    (last'.op = "prepare_skill" /\ last'.threw) =>
        /\ last'.raised
        /\ last'.casts = 1
        /\ characters' = characters
        /\ order' = order
        /\ team' = team
        /\ stops' = stops + last'.cbs
        /\ Len(last'.runs) <= last'.cbs
        /\ finished' = (last'.cbs = 1)
        /\ last'.cbs = 0 =>
               /\ timer' = timer
               /\ cancels' = cancels
               /\ cleanups' = cleanups
               /\ combat_handler' = combat_handler
               /\ cmdset' = cmdset
               /\ msgs' = msgs

\* C20: when cast_skill raises inside prepare_skill the error reaches the
\* caller of prepare_skill and prepare_skill does nothing after it: the
\* roster, the finished flag and the timer are what cast_skill left,
\* finish() is not called by prepare_skill and no character is released.
C20_RaisePropagates == [][C20_Step]_vars

\* C20 witness: cast_skill raised after leaving one team alive, and the
\* session is still active with its characters in combat.
C20_Witness ==
    /\ last.op = "prepare_skill"
    /\ last.threw
    /\ last.raised
    /\ last.cbs = 0
    /\ can_finish(Self, order)
    /\ ~finished
    /\ stops = 0
    /\ \A c \in characters : combat_handler[c]

\* set_combat has returned and the session has not terminated.
Active == admitted /\ ~finished /\ stops = 0

\* The character c holds the back-reference and the combat command set.
InCombat(c) == combat_handler[c] /\ cmdset[c] = 1

C21_Step ==
    /\ Active' =>
           \A c \in Actors :
               /\ c \in characters' => InCombat(c)'
               /\ c \notin characters' => Released(c)'
    /\ (/\ last'.op \in {"skill_escape", "remove_character"}
        /\ last'.arg \in characters
        /\ Len(last'.runs) = 0) =>
           /\ characters' = characters \ {last'.arg}
           /\ ~combat_handler'[last'.arg]
           /\ cmdset'[last'.arg] = 0
           /\ \A c \in Actors \ {last'.arg} :
                  /\ combat_handler'[c] = combat_handler[c]
                  /\ cmdset'[c] = cmdset[c]

\* C21: in every state from the return of set_combat until the session
\* terminates, a character holds the back-reference and the combat command
\* set if and only if it is in the roster; skill_escape and
\* remove_character take both from exactly the departing character.
C21_Agreement == [][C21_Step]_vars

\* C21 witness: one character has escaped from a session that is still
\* active, and the others are in the roster and in combat.
C21_Witness ==
    /\ Active
    /\ last.op = "skill_escape"
    /\ last.arg \in Range(order) \ characters
    /\ Released(last.arg)
    /\ characters # {}
    /\ \A c \in characters : InCombat(c)

\* The script has been stopped and no roster character is left in combat.
Terminated == stops > 0 /\ \A c \in characters : Released(c)

\* C22: a session admitted with timeout > 0 is stopped in the end and
\* every character still in its roster is released, whatever actions,
\* escapes and removals are interleaved, given that a pending timer fires
\* in the end; a session admitted with timeout = 0 never has a timer, so
\* nothing is bound to end it.
C22_Deadline ==
    /\ (admitted /\ timeout > 0) ~> Terminated
    /\ [][Terminated => Terminated']_vars
    /\ []((admitted /\ timeout = 0) => (timer = "none" /\ ~ENABLED TimerFires))

\* C22 witness: after an escape the timer of a session with a deadline
\* fired, declared the draw and released the characters left.
C22_Witness ==
    /\ timeout > 0
    /\ timer = "fired"
    /\ last.op = "at_timeout"
    /\ Range(order) \ characters # {}
    /\ characters # {}
    /\ ~finished
    /\ Terminated
    /\ \A c \in characters : cleanups[c] = 1

\* The run r of finish() had a non-empty roster with nobody alive.
DoubleKnockout(r) == r.roster # {} /\ r.alive = {}

C23_Step ==
    /\ \A i \in DOMAIN last'.runs :
           DoubleKnockout(last'.runs[i]) =>
               /\ \A c \in last'.runs[i].roster : team[c] # None
               /\ last'.runs[i].winners = {}
               /\ last'.runs[i].losers = last'.runs[i].roster
    /\ (/\ Len(last'.runs) > 0
        /\ \A i \in DOMAIN last'.runs : DoubleKnockout(last'.runs[i])) =>
           /\ \A c \in last'.runs[1].roster :
                  /\ Count(Delta(c), "win") = 0
                  /\ Count(Delta(c), "lose") =
                         IF has_account[c] THEN Len(last'.runs) ELSE 0
                  /\ Released(c)'
           /\ \A c \in Actors \ last'.runs[1].roster :
                  Count(Delta(c), "lose") = 0

\* C23: when finish() runs on a non-empty roster in which no character is
\* alive, winner_team stays None: nobody is a winner and nobody receives
\* win, every roster character is a loser and those with an account
\* receive lose, and all roster characters are released.
C23_DoubleKnockout == [][C23_Step]_vars

\* C23 witness: a skill killed both characters of a two-team session and
\* finish() ran once: both received lose and were released.
C23_Witness ==
    /\ last.op = "prepare_skill"
    /\ Len(last.runs) = 1
    /\ DoubleKnockout(last.runs[1])
    /\ characters = {"a1", "b1"}
    /\ team["a1"] # team["b1"]
    /\ msgs["a1"] = <<"joined_combat", "combat_info", "lose", "left_combat">>
    /\ msgs["b1"] = <<"joined_combat", "combat_info", "lose", "left_combat">>
    /\ \A c \in characters : Released(c)

====
